---------------------------- MODULE Spec2Model ----------------------------
(***************************************************************************)
(* Event-sourced account ledger on a Redis stream.                         *)
(*                                                                         *)
(* Write side: AccountService (create / deposit / withdraw / fetch) on top *)
(* of EventStoreClient.publish / get / addId, with the Account aggregate.  *)
(* Every service process owns ONE Redis connection: its commands reach the *)
(* server in the order they were sent and their replies come back in that  *)
(* order.  A server step executes the oldest outstanding command of one    *)
(* connection and runs the promise continuation of its reply.              *)
(*                                                                         *)
(* Projection side: AccountProjector processes, one consumer each of the   *)
(* group 'accountStreamGroup'.  A batch of events - read by the            *)
(* subscription or claimed by the pending sweep - is handed to             *)
(* eventHandler, which runs one update() chain (MongoDB updateOne, then    *)
(* XACK) per event.  Stream entry k has timestamp k.                       *)
(***************************************************************************)
EXTENDS Integers, Sequences, FiniteSets, TLC

\* ------------------------------------------------------------------ bounds
NumProcs == 2
NumHandlers == 2
MaxAmount == 2
MaxCmds == 4

NumProjs == 2
MaxEvents == 2
MaxFails == 1

MaxLen == 3
MaxVersion == 2

Procs == 1..NumProcs
Handlers == 1..NumHandlers
Ids == {"a", "b"}
\* The account ids the commands of the write-side specification address.
CmdIds == {"a"}
Amounts == 0..MaxAmount
Ops == {"create", "deposit", "withdraw", "fetch"}
Slots == 1..(NumHandlers + Cardinality(Ids))
Projs == 1..NumProjs
Entries == 1..MaxEvents
\* The two callers of eventHandler: the subscription and the pending sweep.
Origins == {"live", "sweep"}

VARIABLES
    idset,      \* Redis set 'accountId'
    kv,         \* Redis version key per account id (0: the key is absent)
    stream,     \* Redis stream 'accountStream'; entry k has timestamp k
    watch,      \* per connection: keys WATCHed since its last EXEC
    dirty,      \* per connection: a watched key was modified
    queue,      \* per connection: handlers whose command awaits execution
    cache,      \* per process: AccountService._accounts (id -> heap slot, 0: none)
    heap,       \* per process: the Account objects
    hs,         \* per process and handler: the promise chain of one command
    ncmds,      \* commands started so far
    group,      \* the consumer group 'accountStreamGroup' exists
    lastDelivered, \* the group's last-delivered entry
    pel,        \* the group's pending list: per entry its owner (0: not pending)
                \* and whether its idle time has reached PENDING_INTERVAL
    view,       \* MongoDB accountCollection: one document per account id
    pstat,      \* per projector process: "init", "up" or "dead"
    tasks,      \* per projector and batch: the update() chain of each event
    closed,     \* per projector and batch: its MongoDB connection was closed
    sweep,      \* per projector: the getPending call in progress
    fails,      \* backend errors injected so far
    res         \* per projector: its sweep timer, its poll interval and its
                \* Redis connection are alive

\* The state of the projection side, and of the service processes.
pvars == <<group, lastDelivered, pel, view, pstat, tasks, closed, sweep, fails, res>>
svars == <<idset, kv, watch, dirty, queue, cache, heap, hs, ncmds>>

vars == <<idset, kv, stream, watch, dirty, queue, cache, heap, hs, ncmds,
          group, lastDelivered, pel, view, pstat, tasks, closed, sweep, fails, res>>

\* ------------------------------------------------------- Account aggregate
NoAcct == [version |-> 0, timestamp |-> 0, funds |-> 0]

NewAccount(version, timestamp) ==
    [version |-> version, timestamp |-> timestamp, funds |-> 0]

RehydrateOneNoWithdraw(acct, id, event) ==
    IF event.id = id /\ event.timestamp # acct.timestamp
    THEN [version   |-> event.version,
          timestamp |-> event.timestamp,
          funds     |-> IF event.type = "deposit"
                        THEN acct.funds + event.amount ELSE acct.funds]
    ELSE acct

RehydrateOne(acct, id, event) ==
    IF event.id = id /\ event.timestamp # acct.timestamp
    THEN [version   |-> event.version,
          timestamp |-> event.timestamp,
          funds     |-> IF "amount" \in DOMAIN event /\ "type" \in DOMAIN event
                        THEN CASE event.type = "deposit"  -> acct.funds + event.amount
                               [] event.type = "withdraw" -> acct.funds - event.amount
                               [] OTHER                   -> acct.funds
                        ELSE acct.funds]
    ELSE acct

RECURSIVE Rehydrate(_, _, _)
Rehydrate(acct, id, events) ==
    IF events = <<>> THEN acct
    ELSE Rehydrate(RehydrateOne(acct, id, Head(events)), id, Tail(events))

DepositThrows(acct, amount) == amount <= 0

AccountDeposit(acct, amount) == [acct EXCEPT !.funds = @ + amount]

WithdrawErrorLax(acct, amount) ==
    IF amount <= 0 THEN "InvalidAmount" ELSE "ok"

WithdrawError(acct, amount) ==
    IF amount <= 0 THEN "InvalidAmount"
    ELSE IF acct.funds - amount < 0 THEN "InsufficientFunds"
    ELSE "ok"

AccountWithdraw(acct, amount) == [acct EXCEPT !.funds = @ - amount]

\* ---------------------------------------------------- EventStoreClient
\* get(): XREAD of the entries after `since`, decoded, filtered by id, each
\* with the entry's timestamp attached.
RECURSIVE GetFrom(_, _, _)
GetFrom(s, id, k) ==
    IF k > Len(s) THEN <<>>
    ELSE IF s[k].id = id
         THEN <<s[k] @@ [timestamp |-> k]>> \o GetFrom(s, id, k + 1)
         ELSE GetFrom(s, id, k + 1)

Get(s, id, since) == GetFrom(s, id, since + 1)

HasEventOf(i) == \E k \in 1..Len(stream) : stream[k].id = i

\* The funds of id i folded from the whole stream by a new aggregate.
FoldFunds(i) == Rehydrate(NewAccount(0, 0), i, Get(stream, i, 0)).funds

\* addId(): SADD's reply, 1 iff the id was not yet a member.
AddIdReplyAlways(set, id) == TRUE

AddIdReply(set, id) == id \notin set

\* publish(): the test on GET's reply that lets the transaction be sent.
VersionMatchesAlways(result, version) == TRUE

VersionMatches(result, version) == result = 0 \/ result = version

\* The event as stringified for XADD, after `event.version += 1`.
NewEvent(op, id, version, amount) ==
    IF op = "create"
    THEN [id |-> id, version |-> version, type |-> op]
    ELSE [id |-> id, version |-> version, type |-> op, amount |-> amount]

\* ------------------------------------------------------------ object heap
IdleH == [pc |-> "idle", op |-> "none", id |-> "none", amount |-> 0, acc |-> 0,
          inCache |-> FALSE, since |-> 0, ver |-> 0, outcome |-> "none"]

Reachable(cch, hsp) ==
    ({cch[i] : i \in Ids} \cup {hsp[h].acc : h \in Handlers}) \ {0}

\* Account objects no reference reaches any more are gone.
Collect(hp, cch, hsp) ==
    [s \in Slots |-> IF s \in Reachable(cch, hsp) THEN hp[s] ELSE NoAcct]

FreeSlot(cch, hsp) ==
    CHOOSE s \in Slots : /\ s \notin Reachable(cch, hsp)
                         /\ \A t \in Slots : t < s => t \in Reachable(cch, hsp)

Done(h, outcome) ==
    [IdleH EXCEPT !.pc = "done", !.op = h.op, !.id = h.id, !.amount = h.amount,
                  !.outcome = outcome]

\* -------------------------------------------------------- projection side
NotPending == [owner |-> 0, aged |-> FALSE]
NoDoc == [exists |-> FALSE, funds |-> 0, timestamps |-> {}]
NoSweep == [pc |-> "idle", todo |-> <<>>, got |-> {}, bad |-> FALSE]
NoRes == [sweepTimer |-> FALSE, pollTimer |-> FALSE, conn |-> FALSE]
AllRes == [sweepTimer |-> TRUE, pollTimer |-> TRUE, conn |-> TRUE]

\* ------------------------------------------------------------------ Init
Init ==
    /\ idset = {}
    /\ kv = [i \in Ids |-> 0]
    /\ stream = <<>>
    /\ watch = [p \in Procs |-> {}]
    /\ dirty = [p \in Procs |-> FALSE]
    /\ queue = [p \in Procs |-> <<>>]
    /\ cache = [p \in Procs |-> [i \in Ids |-> 0]]
    /\ heap = [p \in Procs |-> [s \in Slots |-> NoAcct]]
    /\ hs = [p \in Procs |-> [h \in Handlers |-> IdleH]]
    /\ ncmds = 0
    /\ group = FALSE
    /\ lastDelivered = 0
    /\ pel = [k \in Entries |-> NotPending]
    /\ view = [i \in Ids |-> NoDoc]
    /\ pstat = [p \in Projs |-> "init"]
    /\ tasks = [p \in Projs |-> [o \in Origins |-> [k \in Entries |-> "none"]]]
    /\ closed = [p \in Projs |-> [o \in Origins |-> FALSE]]
    /\ sweep = [p \in Projs |-> NoSweep]
    /\ fails = 0
    /\ res = [p \in Projs |-> NoRes]


\* ------------------------------------------------- AccountService commands
SetH(p, h, rec) == [hs EXCEPT ![p][h] = rec]

\* A new command runs in the first free handler slot of its process (the
\* slots are interchangeable, and so are the processes before the first command).
CanStart(p, h) ==
    /\ hs[p][h].pc = "idle"
    /\ \A g \in Handlers : g < h => hs[p][g].pc # "idle"
    /\ ncmds < MaxCmds
    /\ ncmds = 0 => p = 1

\* create(id): addId is sent.
StartCreate(p, h, i) ==
    /\ CanStart(p, h)
    /\ hs' = SetH(p, h, [IdleH EXCEPT !.pc = "sadd", !.op = "create", !.id = i])
    /\ queue' = [queue EXCEPT ![p] = Append(@, h)]
    /\ ncmds' = ncmds + 1
    /\ UNCHANGED <<idset, kv, stream, watch, dirty, cache, heap, pvars>>

\* deposit / withdraw / fetch: the synchronous part of _loadAccount, which
\* picks the cached Account (or a new one) and sends XREAD from its timestamp.
StartLoad(p, h, op, i, amt) ==
    /\ CanStart(p, h)
    /\ op \in {"deposit", "withdraw", "fetch"}
    /\ op = "fetch" => amt = 0
    /\ LET inCache == cache[p][i] # 0
           slot    == IF inCache THEN cache[p][i] ELSE FreeSlot(cache[p], hs[p])
           acct    == IF inCache THEN heap[p][slot] ELSE NewAccount(0, 0)
       IN  /\ hs' = SetH(p, h, [IdleH EXCEPT !.pc = "xread", !.op = op, !.id = i,
                                    !.amount = amt, !.acc = slot,
                                    !.inCache = inCache, !.since = acct.timestamp])
           /\ heap' = [heap EXCEPT ![p][slot] = acct]
    /\ queue' = [queue EXCEPT ![p] = Append(@, h)]
    /\ ncmds' = ncmds + 1
    /\ UNCHANGED <<idset, kv, stream, watch, dirty, cache, pvars>>

\* The continuation of publish()'s result in create / deposit / withdraw:
\* results is <<>> (null) or <<newVersion, timestamp>>.
Settle(p, h, results) ==
    LET r    == hs[p][h]
        acct == heap[p][r.acc]
    IN  IF r.op = "create"
        THEN IF Len(results) = 2
             THEN LET slot == FreeSlot(cache[p], hs[p])
                      c2   == [cache[p] EXCEPT ![r.id] = slot]
                      h2   == [hs[p] EXCEPT ![h] = Done(r, "ok")]
                  IN  /\ cache' = [cache EXCEPT ![p] = c2]
                      /\ hs' = [hs EXCEPT ![p] = h2]
                      /\ heap' = [heap EXCEPT ![p] =
                             Collect([heap[p] EXCEPT ![slot] =
                                         NewAccount(results[1], results[2])], c2, h2)]
             ELSE /\ hs' = SetH(p, h, Done(r, "Conflict"))
                  /\ UNCHANGED <<cache, heap>>
        ELSE IF results # <<>>
             THEN LET c2 == [cache[p] EXCEPT ![r.id] = r.acc]
                      h2 == [hs[p] EXCEPT ![h] = Done(r, "ok")]
                  IN  /\ cache' = [cache EXCEPT ![p] = c2]
                      /\ hs' = [hs EXCEPT ![p] = h2]
                      /\ heap' = [heap EXCEPT ![p] =
                             Collect([heap[p] EXCEPT ![r.acc] =
                                         [acct EXCEPT !.version = results[1],
                                                      !.timestamp = results[2]]],
                                     c2, h2)]
             ELSE LET err  == IF r.op = "deposit"
                              THEN WithdrawError(acct, r.amount)
                              ELSE IF DepositThrows(acct, r.amount)
                                   THEN "InvalidAmount" ELSE "ok"
                      back == IF r.op = "deposit"
                              THEN AccountWithdraw(acct, r.amount)
                              ELSE AccountDeposit(acct, r.amount)
                      h2   == [hs[p] EXCEPT ![h] =
                                  Done(r, IF err = "ok" THEN "none" ELSE err)]
                  IN  /\ hs' = [hs EXCEPT ![p] = h2]
                      /\ heap' = [heap EXCEPT ![p] =
                             Collect([heap[p] EXCEPT ![r.acc] =
                                         IF err = "ok" THEN back ELSE acct],
                                     cache[p], h2)]
                      /\ UNCHANGED cache

\* The server executes SADD; create goes on to publish, or fails.
ExecSadd(p) ==
    /\ queue[p] # <<>>
    /\ LET h == Head(queue[p])
           r == hs[p][h]
       IN  /\ r.pc = "sadd"
           /\ idset' = idset \cup {r.id}
           /\ IF AddIdReply(idset, r.id)
              THEN /\ hs' = SetH(p, h, [r EXCEPT !.pc = "watch", !.ver = 0])
                   /\ queue' = [queue EXCEPT ![p] = Tail(@) \o <<h, h>>]
              ELSE /\ hs' = SetH(p, h, Done(r, "Conflict"))
                   /\ queue' = [queue EXCEPT ![p] = Tail(@)]
    /\ UNCHANGED <<kv, stream, watch, dirty, cache, heap, ncmds, pvars>>

\* _loadAccount: the test that throws 'Non-existent account id'.
LoadFailsAlways(inCache, events) == inCache /\ events = <<>>

LoadFails(inCache, events) == ~inCache /\ events = <<>>

\* The server executes XREAD; _loadAccount rehydrates and the command
\* mutates the aggregate and calls publish (WATCH and GET are sent).
ExecXread(p) ==
    /\ queue[p] # <<>>
    /\ LET h      == Head(queue[p])
           r      == hs[p][h]
           events == Get(stream, r.id, r.since)
           acct   == Rehydrate(heap[p][r.acc], r.id, events)
           err    == CASE r.op = "deposit" ->
                            IF DepositThrows(acct, r.amount)
                            THEN "InvalidAmount" ELSE "ok"
                       [] r.op = "withdraw" -> WithdrawError(acct, r.amount)
                       [] OTHER -> "ok"
           after  == CASE r.op = "deposit"  -> AccountDeposit(acct, r.amount)
                       [] r.op = "withdraw" -> AccountWithdraw(acct, r.amount)
                       [] OTHER -> acct
           fail(o, a) ==
               LET h2 == [hs[p] EXCEPT ![h] = Done(r, o)]
               IN  /\ hs' = [hs EXCEPT ![p] = h2]
                   /\ heap' = [heap EXCEPT ![p] =
                          Collect([heap[p] EXCEPT ![r.acc] = a], cache[p], h2)]
                   /\ queue' = [queue EXCEPT ![p] = Tail(@)]
       IN  /\ r.pc = "xread"
           /\ IF LoadFails(r.inCache, events)
              THEN fail("NotFound", heap[p][r.acc])
              ELSE IF r.op = "fetch" THEN fail("ok", acct)
              ELSE IF err # "ok" THEN fail(err, acct)
              ELSE /\ hs' = SetH(p, h, [r EXCEPT !.pc = "watch",
                                                 !.ver = acct.version])
                   /\ heap' = [heap EXCEPT ![p][r.acc] = after]
                   /\ queue' = [queue EXCEPT ![p] = Tail(@) \o <<h, h>>]
    /\ UNCHANGED <<idset, kv, stream, watch, dirty, cache, ncmds, pvars>>

\* The server executes publish()'s WATCH.
ExecWatch(p) ==
    /\ queue[p] # <<>>
    /\ LET h == Head(queue[p])
           r == hs[p][h]
       IN  /\ r.pc = "watch"
           /\ watch' = [watch EXCEPT ![p] = @ \cup {r.id}]
           /\ hs' = SetH(p, h, [r EXCEPT !.pc = "get"])
    /\ queue' = [queue EXCEPT ![p] = Tail(@)]
    /\ UNCHANGED <<idset, kv, stream, dirty, cache, heap, ncmds, pvars>>

\* The server executes publish()'s GET; on a match the transaction is sent,
\* else publish resolves null.
ExecGet(p) ==
    /\ queue[p] # <<>>
    /\ LET h == Head(queue[p])
           r == hs[p][h]
       IN  /\ r.pc = "get"
           /\ IF VersionMatches(kv[r.id], r.ver)
              THEN /\ hs' = SetH(p, h, [r EXCEPT !.pc = "exec", !.ver = @ + 1])
                   /\ queue' = [queue EXCEPT ![p] = Tail(@) \o <<h>>]
                   /\ UNCHANGED <<cache, heap>>
              ELSE /\ Settle(p, h, <<>>)
                   /\ queue' = [queue EXCEPT ![p] = Tail(@)]
    /\ UNCHANGED <<idset, kv, stream, watch, dirty, ncmds, pvars>>

\* Whether EXEC on connection p runs its queued commands.
ExecCommits(p) == ~dirty[p]

IncrLeftOut(value) == value

\* The transaction's INCR of the version key.
Incr(value) == value + 1

\* The server executes MULTI / INCR / XADD / EXEC.
ExecMulti(p) ==
    /\ queue[p] # <<>>
    /\ LET h == Head(queue[p])
           r == hs[p][h]
       IN  /\ r.pc = "exec"
           /\ IF ExecCommits(p)
              THEN /\ kv' = [kv EXCEPT ![r.id] = Incr(@)]
                   /\ stream' = Append(stream, NewEvent(r.op, r.id, r.ver, r.amount))
                   /\ dirty' = [q \in Procs |->
                                  IF q = p THEN FALSE
                                  ELSE dirty[q] \/ r.id \in watch[q]]
                   /\ Settle(p, h, <<Incr(kv[r.id]), Len(stream) + 1>>)
              ELSE /\ dirty' = [dirty EXCEPT ![p] = FALSE]
                   /\ Settle(p, h, <<>>)
                   /\ UNCHANGED <<kv, stream>>
    /\ watch' = [watch EXCEPT ![p] = {}]
    /\ queue' = [queue EXCEPT ![p] = Tail(@)]
    /\ UNCHANGED <<idset, ncmds, pvars>>

\* The command's promise has settled; the HTTP edge sends the response.
Return(p, h) ==
    /\ hs[p][h].pc = "done"
    /\ hs' = SetH(p, h, IdleH)
    /\ UNCHANGED <<idset, kv, stream, watch, dirty, queue, cache, heap, ncmds, pvars>>

Next ==
    \/ \E p \in Procs, h \in Handlers, i \in CmdIds : StartCreate(p, h, i)
    \/ \E p \in Procs, h \in Handlers, i \in CmdIds, a \in Amounts,
          op \in {"deposit", "withdraw", "fetch"} : StartLoad(p, h, op, i, a)
    \/ \E p \in Procs : ExecSadd(p)
    \/ \E p \in Procs : ExecXread(p)
    \/ \E p \in Procs : ExecWatch(p)
    \/ \E p \in Procs : ExecGet(p)
    \/ \E p \in Procs : ExecMulti(p)
    \/ \E p \in Procs, h \in Handlers : Return(p, h)

Spec == Init /\ [][Next]_vars

\* ------------------------------------------ rehydration on any stream
\* Any event a stream entry may hold.
AnyEvents ==
    {NewEvent(t, i, v, a) : t \in {"deposit", "withdraw"}, i \in Ids,
                            v \in 1..MaxVersion, a \in 1..MaxAmount}
        \cup {NewEvent("create", i, v, 0) : i \in Ids, v \in 1..MaxVersion}

\* Some client appends an entry to the stream.
AppendAny(e) ==
    /\ Len(stream) < MaxLen
    /\ stream' = Append(stream, e)
    /\ UNCHANGED <<svars, pvars>>

\* _loadAccount(i) on an id the process does not hold: get() from timestamp 0
\* and rehydrate() of a new Account, which the process holds from now on.
LoadFresh(i) ==
    /\ cache[1][i] = 0
    /\ LET slot == FreeSlot(cache[1], hs[1])
       IN  /\ cache' = [cache EXCEPT ![1][i] = slot]
           /\ heap' = [heap EXCEPT ![1][slot] =
                          Rehydrate(NewAccount(0, 0), i, Get(stream, i, 0))]
    /\ UNCHANGED <<idset, kv, stream, watch, dirty, queue, hs, ncmds, pvars>>

\* _loadAccount(i) on a held aggregate: get() from its timestamp and
\* rehydrate() of that same object.
LoadAgain(i) ==
    /\ cache[1][i] # 0
    /\ LET acct == heap[1][cache[1][i]]
       IN  heap' = [heap EXCEPT ![1][cache[1][i]] =
                       Rehydrate(acct, i, Get(stream, i, acct.timestamp))]
    /\ UNCHANGED <<idset, kv, stream, watch, dirty, queue, cache, hs, ncmds, pvars>>

NextR ==
    \/ \E e \in AnyEvents : AppendAny(e)
    \/ \E i \in Ids : LoadFresh(i)
    \/ \E i \in Ids : LoadAgain(i)

SpecR == Init /\ [][NextR]_vars

\* -------------------------------------- one service among other publishers
\* A publish of another service process that succeeds: its EXEC increments
\* the version key and appends the event, which marks the key modified for
\* a connection that watches it.
OtherPublish(i, type, amt) ==
    /\ Len(stream) < MaxLen
    /\ HasEventOf(i)
    /\ type = "withdraw" => FoldFunds(i) - amt >= 0
    /\ stream' = Append(stream, NewEvent(type, i, kv[i] + 1, amt))
    /\ kv' = [kv EXCEPT ![i] = @ + 1]
    /\ dirty' = [q \in Procs |-> dirty[q] \/ i \in watch[q]]
    /\ UNCHANGED <<idset, watch, queue, cache, heap, hs, ncmds, pvars>>

\* Process 1 serves create and fetch requests while others publish.
NextL ==
    \/ \E h \in Handlers, i \in CmdIds : StartCreate(1, h, i)
    \/ \E h \in Handlers, i \in CmdIds : StartLoad(1, h, "fetch", i, 0)
    \/ ExecSadd(1)
    \/ ExecXread(1)
    \/ ExecWatch(1)
    \/ ExecGet(1)
    \/ ExecMulti(1)
    \/ \E h \in Handlers : Return(1, h)
    \/ \E i \in CmdIds, t \in {"deposit", "withdraw"}, a \in 1..MaxAmount :
          OtherPublish(i, t, a)

SpecL == Init /\ [][NextL]_vars


\* ------------------------------------------- deposits on two accounts
\* Both accounts were created earlier and no command is in flight.
InitW ==
    /\ idset = Ids
    /\ kv = [i \in Ids |-> 1]
    /\ stream = <<NewEvent("create", "a", 1, 0), NewEvent("create", "b", 1, 0)>>
    /\ watch = [p \in Procs |-> {}]
    /\ dirty = [p \in Procs |-> FALSE]
    /\ queue = [p \in Procs |-> <<>>]
    /\ cache = [p \in Procs |-> [i \in Ids |-> 0]]
    /\ heap = [p \in Procs |-> [s \in Slots |-> NoAcct]]
    /\ hs = [p \in Procs |-> [h \in Handlers |-> IdleH]]
    /\ ncmds = 0
    /\ group = FALSE
    /\ lastDelivered = 0
    /\ pel = [k \in Entries |-> NotPending]
    /\ view = [i \in Ids |-> NoDoc]
    /\ pstat = [p \in Projs |-> "init"]
    /\ tasks = [p \in Projs |-> [o \in Origins |-> [k \in Entries |-> "none"]]]
    /\ closed = [p \in Projs |-> [o \in Origins |-> FALSE]]
    /\ sweep = [p \in Projs |-> NoSweep]
    /\ fails = 0
    /\ res = [p \in Projs |-> NoRes]

\* A deposit request on account i arrives at process p while p serves no
\* other command on that account.
StartDeposit(p, h, i) ==
    /\ \A g \in Handlers : hs[p][g].id # i
    /\ StartLoad(p, h, "deposit", i, 1)

\* The service processes serve deposit requests on either account.
NextW ==
    \/ \E p \in Procs, h \in Handlers, i \in Ids : StartDeposit(p, h, i)
    \/ \E p \in Procs : ExecXread(p)
    \/ \E p \in Procs : ExecWatch(p)
    \/ \E p \in Procs : ExecGet(p)
    \/ \E p \in Procs : ExecMulti(p)
    \/ \E p \in Procs, h \in Handlers : Return(p, h)

SpecW == InitW /\ [][NextW]_vars


\* ------------------------------------------- a backend error in publish
\* The reply to publish()'s GET or EXEC is an error: publish rejects, and
\* the catch of create / deposit / withdraw logs the error and throws it on.
\* An EXEC that fails has discarded the transaction and the watches.
PublishFails(p) ==
    /\ fails < MaxFails
    /\ queue[p] # <<>>
    /\ LET h  == Head(queue[p])
           r  == hs[p][h]
           h2 == [hs[p] EXCEPT ![h] = Done(r, "error")]
       IN  /\ r.pc \in {"get", "exec"}
           /\ hs' = [hs EXCEPT ![p] = h2]
           /\ heap' = [heap EXCEPT ![p] = Collect(heap[p], cache[p], h2)]
           /\ watch' = IF r.pc = "exec" THEN [watch EXCEPT ![p] = {}] ELSE watch
           /\ dirty' = IF r.pc = "exec" THEN [dirty EXCEPT ![p] = FALSE] ELSE dirty
    /\ queue' = [queue EXCEPT ![p] = Tail(@)]
    /\ fails' = fails + 1
    /\ UNCHANGED <<idset, kv, stream, cache, ncmds, group, lastDelivered, pel, view,
                   pstat, tasks, closed, sweep, res>>

\* One service process, whose backend may fail a publish.
NextE ==
    \/ \E h \in Handlers, i \in CmdIds : StartCreate(1, h, i)
    \/ \E h \in Handlers, i \in CmdIds, a \in Amounts,
          op \in {"deposit", "withdraw", "fetch"} : StartLoad(1, h, op, i, a)
    \/ ExecSadd(1)
    \/ ExecXread(1)
    \/ ExecWatch(1)
    \/ ExecGet(1)
    \/ ExecMulti(1)
    \/ PublishFails(1)
    \/ \E h \in Handlers : Return(1, h)

SpecE == Init /\ [][NextE]_vars


\* ------------------------------------------------------ AccountProjector
\* eventHandler: the signed amount an event adds to the view's funds.
Delta(event) ==
    CASE event.type = "deposit"  -> event.amount
      [] event.type = "withdraw" -> 0 - event.amount
      [] OTHER                   -> 0

\* eventHandler's query: the document of the id, unless its timestamps
\* already hold this timestamp.
QueryMatchesAny(doc, ts) == doc.exists

QueryMatchesNone(doc, ts) == FALSE

QueryMatchesEmpty(doc, ts) == doc.exists /\ doc.timestamps = {}

QueryMatches(doc, ts) == doc.exists /\ ts \notin doc.timestamps

ApplyValueNoStamp(doc, amount, ts) ==
    [exists |-> TRUE, funds |-> doc.funds + amount, timestamps |-> doc.timestamps]

\* eventHandler's value: $inc of funds and $addToSet of the timestamp.
ApplyValue(doc, amount, ts) ==
    [exists |-> TRUE, funds |-> doc.funds + amount,
     timestamps |-> doc.timestamps \cup {ts}]

BatchOver(row) == \A k \in Entries : row[k] = "none"

\* Promise.all over the batch: a chain that settles ("none") leaves the batch,
\* a rejected one has eventHandler close the connection under the others;
\* the batch is over once every update() chain has settled.
SetTask(p, o, k, pc, failed) ==
    LET row == [tasks[p][o] EXCEPT ![k] = pc]
    IN  /\ tasks' = [tasks EXCEPT ![p][o] = row]
        /\ closed' = [closed EXCEPT ![p][o] = ~BatchOver(row) /\ (@ \/ failed)]

\* eventHandler(eventList): one update() chain per event, all started at once.
Dispatch(p, o, K) ==
    tasks' = [tasks EXCEPT ![p][o] = [k \in Entries |-> IF k \in K THEN "upd" ELSE "none"]]

\* The write side as the projection side sees it: a command that succeeded
\* appended its event.
Published(i, type, amt) ==
    /\ Len(stream) < MaxEvents
    /\ IF HasEventOf(i) THEN type \in {"deposit", "withdraw"} /\ amt > 0
                        ELSE type = "create" /\ amt = 0
    /\ type = "withdraw" => FoldFunds(i) - amt >= 0
    /\ stream' = Append(stream, NewEvent(type, i, Len(Get(stream, i, 0)) + 1, amt))
    /\ UNCHANGED <<svars, pvars>>

\* connect(): subscribe sends XGROUP CREATE (from entry 0), whose error -
\* the group exists, or the stream does not exist yet - is ignored.
Connect(p) ==
    /\ pstat[p] = "init"
    /\ \A q \in Projs : q < p => pstat[q] # "init"
    /\ pstat' = [pstat EXCEPT ![p] = "up"]
    /\ res' = [res EXCEPT ![p] = AllRes]
    /\ group' = (group \/ stream # <<>>)
    /\ UNCHANGED <<svars, stream, lastDelivered, pel, view, tasks, closed, sweep, fails>>

\* The subscription's interval: _readGroup reads the never-delivered entries,
\* which become pending for this consumer, and emits them to eventHandler.
Poll(p) ==
    /\ res[p].pollTimer /\ res[p].conn
    /\ group
    /\ BatchOver(tasks[p]["live"])
    /\ lastDelivered < Len(stream)
    /\ LET new == (lastDelivered + 1)..Len(stream)
       IN  /\ pel' = [k \in Entries |->
                        IF k \in new THEN [owner |-> p, aged |-> FALSE] ELSE pel[k]]
           /\ Dispatch(p, "live", new)
    /\ lastDelivered' = Len(stream)
    /\ UNCHANGED <<svars, res, stream, group, view, pstat, closed, sweep, fails>>

\* update(): updateOne with upsert.  With no document of the id the upsert
\* goes on to insert one; a document that holds the timestamp makes the
\* upsert's insert fail with a duplicate key (11000), and update() retries
\* without upsert.
TaskUpdate(p, o, k) ==
    /\ tasks[p][o][k] = "upd"
    /\ LET e   == stream[k]
           doc == view[e.id]
       IN  IF ~doc.exists
           THEN /\ SetTask(p, o, k, "ins", FALSE)
                /\ UNCHANGED view
           ELSE IF QueryMatches(doc, k)
           THEN /\ view' = [view EXCEPT ![e.id] = ApplyValue(doc, Delta(e), k)]
                /\ SetTask(p, o, k, "ack", FALSE)
           ELSE /\ SetTask(p, o, k, IF closed[p][o] THEN "none" ELSE "upd2", closed[p][o])
                /\ UNCHANGED view
    /\ UNCHANGED <<svars, res, stream, group, lastDelivered, pel, pstat, sweep, fails>>

\* The upsert's insert: it fails with a duplicate key when a concurrent
\* upsert has inserted the document meanwhile.
TaskInsert(p, o, k) ==
    /\ tasks[p][o][k] = "ins"
    /\ LET e   == stream[k]
           doc == view[e.id]
       IN  IF ~doc.exists
           THEN /\ view' = [view EXCEPT ![e.id] = ApplyValue(NoDoc, Delta(e), k)]
                /\ SetTask(p, o, k, "ack", FALSE)
           ELSE /\ SetTask(p, o, k, IF closed[p][o] THEN "none" ELSE "upd2", closed[p][o])
                /\ UNCHANGED view
    /\ UNCHANGED <<svars, res, stream, group, lastDelivered, pel, pstat, sweep, fails>>

\* update()'s retry after error 11000: updateOne without upsert.
TaskRetry(p, o, k) ==
    /\ tasks[p][o][k] = "upd2"
    /\ LET e   == stream[k]
           doc == view[e.id]
       IN  view' = [view EXCEPT ![e.id] =
                       IF QueryMatches(doc, k) THEN ApplyValue(doc, Delta(e), k) ELSE doc]
    /\ SetTask(p, o, k, "ack", FALSE)
    /\ UNCHANGED <<svars, res, stream, group, lastDelivered, pel, pstat, sweep, fails>>

\* ack(): XACK takes the entry off the group's pending list.
TaskAck(p, o, k) ==
    /\ tasks[p][o][k] = "ack"
    /\ pel' = [pel EXCEPT ![k] = NotPending]
    /\ SetTask(p, o, k, "none", FALSE)
    /\ UNCHANGED <<svars, res, stream, group, lastDelivered, view, pstat, sweep, fails>>

\* A backend error rejects update(); eventHandler's finally closes the batch's
\* MongoDB connection, on which the batch's other updates then may fail too.
TaskFail(p, o, k) ==
    /\ tasks[p][o][k] \in {"upd", "ins", "upd2", "ack"}
    /\ IF closed[p][o] /\ tasks[p][o][k] # "ack"
       THEN UNCHANGED fails
       ELSE fails < MaxFails /\ fails' = fails + 1
    /\ SetTask(p, o, k, "none", TRUE)
    /\ UNCHANGED <<svars, res, stream, group, lastDelivered, pel, view, pstat, sweep>>

\* The projector process dies; another instance lives on or is yet to start.
Crash(p) ==
    /\ pstat[p] = "up"
    /\ \E q \in Projs : q # p /\ pstat[q] \in {"init", "up"}
    /\ pstat' = [pstat EXCEPT ![p] = "dead"]
    /\ res' = [res EXCEPT ![p] = NoRes]
    /\ tasks' = [tasks EXCEPT ![p] = [o \in Origins |-> [k \in Entries |-> "none"]]]
    /\ closed' = [closed EXCEPT ![p] = [o \in Origins |-> FALSE]]
    /\ sweep' = [sweep EXCEPT ![p] = NoSweep]
    /\ UNCHANGED <<svars, stream, group, lastDelivered, pel, view, fails>>

\* EventStoreClient.close(): forEach calls obj.clearInterval() on every
\* object setInterval returned; a Timeout has no such method, so with any
\* subscription the call throws a TypeError.
CloseThrows(intervals) == intervals > 0

\* AccountProjector.close(): clearInterval on the sweep timer, then
\* esClient.close(), which stops the poll intervals and quits the Redis
\* client if it gets that far.  Another instance stays in service.
Close(p) ==
    /\ pstat[p] = "up"
    /\ \E q \in Projs : q # p /\ pstat[q] \in {"init", "up"}
    /\ pstat' = [pstat EXCEPT ![p] = "closed"]
    /\ res' = [res EXCEPT ![p] =
                  IF CloseThrows(1)
                  THEN [@ EXCEPT !.sweepTimer = FALSE]
                  ELSE NoRes]
    /\ UNCHANGED <<svars, stream, group, lastDelivered, pel, view, tasks, closed,
                   sweep, fails>>

\* The update() chains at work on entry k, over all projectors and batches.
InFlight(k) == {po \in Projs \X Origins : tasks[po[1]][po[2]][k] # "none"}

\* Time passes: the idle time of pending entry k reaches PENDING_INTERVAL.
\* An update() chain, and a getPending run between its XCLAIM of the entry
\* and the dispatch, settle in far less than that, so the entry gets there
\* only once no chain is at work on it and no sweep holds it.
Age(k) ==
    /\ pel[k].owner # 0 /\ ~pel[k].aged
    /\ InFlight(k) = {}
    /\ \A p \in Projs : k \notin sweep[p].got
    /\ pel' = [pel EXCEPT ![k].aged = TRUE]
    /\ UNCHANGED <<svars, res, stream, group, lastDelivered, view, pstat, tasks, closed,
                   sweep, fails>>

\* The entries of set K in stream order.
RECURSIVE Sorted(_)
Sorted(K) ==
    IF K = {} THEN <<>>
    ELSE LET m == CHOOSE x \in K : \A y \in K : x <= y
         IN  <<m>> \o Sorted(K \ {m})

ClaimableAlways(entry) == entry.owner # 0

\* getPending's test on XPENDING's elapsed time of a pending entry.
Claimable(entry) == entry.owner # 0 /\ entry.aged

\* processPending's interval: getPending lists the pending entries (XPENDING)
\* and sends one XCLAIM for each that was idle for PENDING_INTERVAL.
SweepStart(p) ==
    /\ res[p].sweepTimer /\ res[p].conn
    /\ group
    /\ sweep[p].pc = "idle"
    /\ BatchOver(tasks[p]["sweep"])
    /\ LET K == {k \in Entries : Claimable(pel[k])}
       IN  /\ K # {}
           /\ sweep' = [sweep EXCEPT ![p] =
                           [pc |-> "claim", todo |-> Sorted(K), got |-> {}, bad |-> FALSE]]
    /\ UNCHANGED <<svars, res, stream, group, lastDelivered, pel, view, pstat, tasks,
                   closed, fails>>

\* The server executes the next XCLAIM: the entry changes owner if it is
\* still pending and idle, else the reply is empty.  After the last reply
\* getPending decodes the replies - which throws on an empty one - and
\* processPending hands the claimed events to eventHandler.
SweepClaim(p) ==
    /\ sweep[p].pc = "claim"
    /\ LET k    == Head(sweep[p].todo)
           ok   == Claimable(pel[k])
           got  == IF ok THEN sweep[p].got \cup {k} ELSE sweep[p].got
           bad  == sweep[p].bad \/ ~ok
           rest == Tail(sweep[p].todo)
       IN  /\ pel' = IF ok THEN [pel EXCEPT ![k] = [owner |-> p, aged |-> FALSE]]
                     ELSE pel
           /\ IF rest # <<>>
              THEN /\ sweep' = [sweep EXCEPT ![p] =
                                  [pc |-> "claim", todo |-> rest, got |-> got, bad |-> bad]]
                   /\ UNCHANGED tasks
              ELSE /\ sweep' = [sweep EXCEPT ![p] = NoSweep]
                   /\ IF bad THEN UNCHANGED tasks ELSE Dispatch(p, "sweep", got)
    /\ UNCHANGED <<svars, res, stream, group, lastDelivered, view, pstat, closed, fails>>

NextP ==
    \/ \E i \in CmdIds, t \in {"create", "deposit", "withdraw"}, a \in Amounts :
          Published(i, t, a)
    \/ \E p \in Projs : Connect(p)
    \/ \E p \in Projs : Poll(p)
    \/ \E p \in Projs, o \in Origins, k \in Entries : TaskUpdate(p, o, k)
    \/ \E p \in Projs, o \in Origins, k \in Entries : TaskInsert(p, o, k)
    \/ \E p \in Projs, o \in Origins, k \in Entries : TaskRetry(p, o, k)
    \/ \E p \in Projs, o \in Origins, k \in Entries : TaskAck(p, o, k)
    \/ \E p \in Projs, o \in Origins, k \in Entries : TaskFail(p, o, k)
    \/ \E p \in Projs : Crash(p)
    \/ \E p \in Projs : Close(p)
    \/ \E k \in Entries : Age(k)
    \/ \E p \in Projs : SweepStart(p)
    \/ \E p \in Projs : SweepClaim(p)

SpecP == Init /\ [][NextP]_vars

\* The timers of a running projector keep firing, the servers answer every
\* command sent to them, and time passes.  Nothing obliges a command to be
\* published, a backend to fail or a projector to crash.
FairP ==
    /\ \A p \in Projs : WF_vars(Connect(p)) /\ WF_vars(Poll(p))
    /\ \A p \in Projs : WF_vars(SweepStart(p)) /\ WF_vars(SweepClaim(p))
    /\ \A p \in Projs, o \in Origins, k \in Entries :
          /\ WF_vars(TaskUpdate(p, o, k)) /\ WF_vars(TaskInsert(p, o, k))
          /\ WF_vars(TaskRetry(p, o, k)) /\ WF_vars(TaskAck(p, o, k))
    /\ \A k \in Entries : WF_vars(Age(k))

FairSpecP == Init /\ [][NextP]_vars /\ FairP

\* ------------------------------------------------------------ observations
EventsOf(i) == Get(stream, i, 0)

Versions(i) == [k \in 1..Len(EventsOf(i)) |-> EventsOf(i)[k].version]

\* Number of publishes for id i, called with event.version = v, that succeeded:
\* each appended one event carrying version v + 1.
Winners(i, v) ==
    Cardinality({k \in 1..Len(stream) : stream[k].id = i /\ stream[k].version = v + 1})

\* No command for id i is in flight in any service process.
Quiescent(i) ==
    \A p \in Procs, h \in Handlers : hs[p][h].pc \in {"idle", "done"} \/ hs[p][h].id # i

\* Sum of the deposit amounts minus sum of the withdraw amounts of the events
\* of id i among the first k stream entries.
RECURSIVE StreamFunds(_, _)
StreamFunds(i, k) ==
    IF k = 0 THEN 0
    ELSE StreamFunds(i, k - 1) +
         (IF stream[k].id # i THEN 0
          ELSE IF stream[k].type = "deposit" THEN stream[k].amount
          ELSE IF stream[k].type = "withdraw" THEN 0 - stream[k].amount
          ELSE 0)

\* The aggregate _loadAccount(i) would return in process p right now
\* (NoAcct when it throws NotFound).
Loaded(p, i) ==
    LET inCache == cache[p][i] # 0
        acct    == IF inCache THEN heap[p][cache[p][i]] ELSE NewAccount(0, 0)
        events  == Get(stream, i, acct.timestamp)
    IN  IF ~inCache /\ events = <<>> THEN NoAcct ELSE Rehydrate(acct, i, events)

LoadFound(p, i) == cache[p][i] # 0 \/ HasEventOf(i)

CreateEvents(i) ==
    Cardinality({k \in 1..Len(stream) : stream[k].id = i /\ stream[k].type = "create"})

\* Handler h of process p completes its command in this step.
Completes(p, h) == hs[p][h].pc \notin {"idle", "done"} /\ hs'[p][h].pc = "done"

\* ------------------------------------------------------------------ claims

\* C1: among the publish calls for one account id that carry the same
\* event.version, at most one succeeds (appends its event, which then carries
\* that version plus one).
C1_AtMostOneWinner == \A i \in Ids : \A v \in 0..MaxCmds : Winners(i, v) <= 1

\* C2: for each account id, the version fields of its events, in stream
\* order, are exactly 1, 2, ..., n.
C2_VersionsContiguous ==
    \A i \in Ids : Versions(i) = [k \in 1..Len(EventsOf(i)) |-> k]

\* C3: whenever no command for an id is in flight, the funds fetch(id) reports
\* in any service process equal the deposits minus the withdrawals published
\* for that id.
C3_FetchEqualsPublished ==
    \A i \in Ids, p \in Procs :
        Quiescent(i) /\ LoadFound(p, i)
            => Loaded(p, i).funds = StreamFunds(i, Len(stream))

\* C4: after a successful deposit or withdraw on an id, the cached aggregate
\* of every process and the aggregate rehydrated from the stream have
\* funds >= 0.
C4_FundsNonNegative ==
    \A p \in Procs, h \in Handlers :
        LET r == hs[p][h] IN
        r.pc = "done" /\ r.outcome = "ok" /\ r.op \in {"deposit", "withdraw"} =>
            /\ \A q \in Procs :
                   cache[q][r.id] # 0 => heap[q][cache[q][r.id]].funds >= 0
            /\ StreamFunds(r.id, Len(stream)) >= 0

\* C5: when publish returns none inside deposit (withdraw), the command
\* returns none and the aggregate's funds are taken back by (put back up by)
\* the amount.
C5_RollbackOnNone ==
    [][\A p \in Procs, h \in Handlers :
          LET r == hs[p][h] IN
          (Completes(p, h) /\ r.pc \in {"get", "exec"}
             /\ r.op \in {"deposit", "withdraw"} /\ hs'[p][h].outcome # "ok")
          => /\ hs'[p][h].outcome = "none"
             /\ cache'[p][r.id] = r.acc =>
                  heap'[p][r.acc].funds =
                      heap[p][r.acc].funds +
                          (IF r.op = "deposit" THEN 0 - r.amount ELSE r.amount)
      ]_vars

\* C6: an id has at most one create event on the stream; a create call that
\* returns {id} is the one that appended it, and every other create call
\* fails with Conflict and leaves the stream and the version key unchanged.
C6_CreateOnce ==
    /\ [](\A i \in Ids : CreateEvents(i) <= 1)
    /\ [][\A p \in Procs, h \in Handlers :
            LET r == hs[p][h] IN
            (Completes(p, h) /\ r.op = "create") =>
                IF hs'[p][h].outcome = "ok"
                THEN /\ stream' = Append(stream,
                                     [id |-> r.id, version |-> 1, type |-> "create"])
                     /\ kv' = [kv EXCEPT ![r.id] = @ + 1]
                ELSE /\ hs'[p][h].outcome = "Conflict"
                     /\ stream' = stream
                     /\ kv' = kv
        ]_vars

C6_Witness ==
    \E p \in Procs, h \in Handlers, q \in Procs, g \in Handlers :
        /\ hs[p][h].pc = "done" /\ hs[p][h].op = "create" /\ hs[p][h].outcome = "ok"
        /\ hs[q][g].pc = "done" /\ hs[q][g].op = "create"
        /\ hs[q][g].outcome = "Conflict" /\ hs[q][g].id = hs[p][h].id

\* C7: an update() chain dispatched for an event whose timestamp the view
\* record of its account already holds leaves that record - funds and
\* timestamps - as it is, whichever step of the chain runs.
C7_RedeliveryIdempotent ==
    [][\A p \in Projs, o \in Origins, k \in Entries :
          (/\ tasks[p][o][k] \in {"upd", "ins", "upd2"}
           /\ tasks'[p][o][k] # tasks[p][o][k]
           /\ k \in view[stream[k].id].timestamps)
          => view'[stream[k].id] = view[stream[k].id]
      ]_vars

C7_Witness ==
    \E p \in Projs, k \in Entries :
        /\ tasks[p]["sweep"][k] = "upd2"
        /\ k <= Len(stream) /\ stream[k].type = "deposit"
        /\ k \in view[stream[k].id].timestamps
        /\ view[stream[k].id].funds = stream[k].amount

\* The funds of every view record are the deltas of the events whose
\* timestamps it holds, each counted once.
RECURSIVE ViewFunds(_, _)
ViewFunds(i, k) ==
    IF k = 0 THEN 0
    ELSE ViewFunds(i, k - 1) +
         (IF k <= Len(stream) /\ stream[k].id = i /\ k \in view[i].timestamps
          THEN Delta(stream[k]) ELSE 0)

\* Entry k was delivered and not acknowledged, and no update() chain is at
\* work on it: its projector crashed, or its handler failed.
Abandoned(k) == pel[k].owner # 0 /\ InFlight(k) = {}

Settled(k) ==
    /\ k <= Len(stream)
    /\ pel[k] = NotPending
    /\ k \in view[stream[k].id].timestamps
    /\ view[stream[k].id].funds = ViewFunds(stream[k].id, MaxEvents)

\* C8: an entry left unacknowledged by a crashed projector or a failed
\* handler is eventually claimed by a running projector's pending sweep,
\* applied to the view record and acknowledged, its delta counted once.
C8_EventuallySettled == \A k \in Entries : Abandoned(k) ~> Settled(k)

\* C9: whenever no command for an id is in flight, a deposit or withdraw of
\* any service process on that id passes publish's version test (it is not
\* bound to return none).
C9_RetrySucceeds ==
    \A i \in Ids, p \in Procs :
        Quiescent(i) /\ LoadFound(p, i)
            => VersionMatches(kv[i], Loaded(p, i).version)

\* C10: fetch, deposit and withdraw on an id that is not in the cache and has
\* no event on the stream fail with NotFound, and append no event, leave the
\* version keys alone and put nothing into the cache.
C10_NotFound ==
    [][\A p \in Procs, h \in Handlers :
          LET r == hs[p][h] IN
          (r.pc = "xread" /\ hs'[p][h].pc # "xread"
             /\ ~r.inCache /\ cache[p][r.id] = 0 /\ ~HasEventOf(r.id))
          => /\ hs'[p][h].pc = "done"
             /\ hs'[p][h].outcome = "NotFound"
             /\ stream' = stream
             /\ kv' = kv
             /\ cache' = cache
      ]_vars

C10_Witness ==
    \E p \in Procs, h \in Handlers, q \in Procs, g \in Handlers :
        /\ hs[p][h].pc = "done" /\ hs[p][h].outcome = "NotFound"
        /\ hs[p][h].op = "deposit"
        /\ hs[q][g].pc = "done" /\ hs[q][g].outcome = "NotFound"
        /\ hs[q][g].op = "fetch"
\* C11: a deposit with amount <= 0 fails with InvalidAmount, a withdraw with
\* amount <= 0 or amount above the loaded aggregate's funds fails with
\* InvalidAmount resp. InsufficientFunds; no event is appended, the version
\* keys stay as they are and the amount is not applied to the aggregate.
C11_RejectsBadAmount ==
    [][\A p \in Procs, h \in Handlers :
          LET r      == hs[p][h]
              events == Get(stream, r.id, r.since)
              acct   == Rehydrate(heap[p][r.acc], r.id, events)
              bad    == IF r.amount <= 0 THEN "InvalidAmount"
                        ELSE IF r.op = "withdraw" /\ r.amount > acct.funds
                        THEN "InsufficientFunds" ELSE "ok"
          IN  (/\ r.pc = "xread" /\ hs'[p][h].pc # "xread"
               /\ r.op \in {"deposit", "withdraw"}
               /\ (r.inCache \/ events # <<>>)
               /\ bad # "ok")
              => /\ hs'[p][h].pc = "done"
                 /\ hs'[p][h].outcome = bad
                 /\ stream' = stream
                 /\ kv' = kv
                 /\ cache' = cache
                 /\ cache[p][r.id] = r.acc => heap'[p][r.acc].funds = acct.funds
      ]_vars

C11_Witness ==
    \E p \in Procs, h \in Handlers, q \in Procs, g \in Handlers :
        /\ hs[p][h].pc = "done" /\ hs[p][h].op = "deposit"
        /\ hs[p][h].outcome = "InvalidAmount"
        /\ hs[q][g].pc = "done" /\ hs[q][g].op = "withdraw"
        /\ hs[q][g].outcome = "InsufficientFunds" /\ hs[q][g].amount > 0

\* The last stream entry of id i (0: none).
LastOf(i) ==
    LET K == {k \in 1..Len(stream) : stream[k].id = i}
    IN  IF K = {} THEN 0 ELSE CHOOSE k \in K : \A j \in K : j <= k

\* The events of id i folded in stream order.
Folded(i) ==
    [version   |-> IF LastOf(i) = 0 THEN 0 ELSE stream[LastOf(i)].version,
     timestamp |-> LastOf(i),
     funds     |-> StreamFunds(i, Len(stream))]

\* C12: rehydrating a fresh aggregate of an id gives the version, timestamp
\* and funds of folding all events of the id in stream order; rehydrating
\* it again from its timestamp, with no newer event of the id, changes
\* nothing.
C12_RehydrateIsFold ==
    [][/\ \A i \in Ids :
            (cache[1][i] = 0 /\ cache'[1][i] # 0)
                => heap'[1][cache'[1][i]] = Folded(i)
       /\ (/\ stream' = stream /\ cache' = cache
           /\ \A i \in Ids : cache[1][i] # 0 =>
                  heap[1][cache[1][i]].timestamp = LastOf(i))
              => heap' = heap
      ]_vars

C12_Witness ==
    \E i \in Ids :
        /\ cache[1][i] # 0
        /\ heap[1][cache[1][i]].timestamp = LastOf(i)
        /\ heap[1][cache[1][i]].funds = 1
        /\ \E k \in 1..Len(stream) : stream[k].id = i /\ stream[k].type = "withdraw"
        /\ \E k \in 1..Len(stream) : stream[k].id # i


\* C13: the events of one account reach its view record in stream order: the
\* record never holds the timestamp of an event while an earlier event of the
\* same account is missing from it.
C13_AppliedInOrder ==
    \A i \in Ids : \A k \in view[i].timestamps :
        \A j \in 1..(k - 1) : stream[j].id = i => j \in view[i].timestamps


\* C14: once close() has run on a projector, whose client holds a
\* subscription, its poll interval is stopped and its connection to the log
\* is shut down.
C14_CloseStopsPolling ==
    \A p \in Projs : pstat[p] = "closed" => ~res[p].pollTimer /\ ~res[p].conn


\* C15: a load of a cached aggregate folds into it exactly the events of its
\* id that are newer than the timestamp the aggregate has at that moment: no
\* event is folded into the same Account object twice.
C15_FoldsOnlyNewer ==
    [][\A p \in Procs, h \in Handlers :
          LET r    == hs[p][h]
              acct == heap[p][r.acc]
          IN  (/\ r.pc = "xread" /\ hs'[p][h].pc # "xread"
               /\ r.op = "fetch" /\ r.inCache /\ cache[p][r.id] = r.acc)
              => heap'[p][r.acc].funds =
                     acct.funds + StreamFunds(r.id, Len(stream))
                                - StreamFunds(r.id, acct.timestamp)
      ]_vars


\* C16: the version key of an id, when it exists, holds the version field of
\* the latest event of that id on the stream.
C16_KeyIsLatestVersion ==
    \A i \in Ids :
        kv[i] # 0 => LastOf(i) # 0 /\ kv[i] = stream[LastOf(i)].version


\* Handler h of process p is inside publish(), before GET's reply, and the
\* version key of its event's id exists with another value than event.version.
Mismatched(p, h) ==
    /\ hs[p][h].pc \in {"watch", "get"}
    /\ kv[hs[p][h].id] # 0
    /\ kv[hs[p][h].id] # hs[p][h].ver

\* C17: a publish whose event.version differs from the existing version key
\* resolves none: it sends no transaction (event.version is not incremented)
\* and leaves the stream and the version keys as they are; and a key that
\* differs when publish is called still differs when GET is answered.
C17_MismatchReturnsNone ==
    [][\A p \in Procs, h \in Handlers :
          Mismatched(p, h) =>
              IF hs[p][h].pc = "get" /\ hs'[p][h].pc # "get"
              THEN /\ hs'[p][h].pc = "done"
                   /\ hs'[p][h].outcome # "ok"
                   /\ stream' = stream
                   /\ kv' = kv
              ELSE /\ hs'[p][h].pc \in {"watch", "get"}
                   /\ hs'[p][h].ver = hs[p][h].ver
                   /\ Mismatched(p, h)'
      ]_vars

C17_Witness ==
    \E p \in Procs, h \in Handlers, q \in Procs, g \in Handlers :
        /\ Mismatched(p, h) /\ hs[p][h].pc = "get"
        /\ hs[q][g].pc = "done" /\ hs[q][g].outcome = "none"
        /\ hs[q][g].op = "deposit" /\ <<q, g>> # <<p, h>>


\* Entry k was delivered to the group and is off its pending list.
Acked(k) == k <= lastDelivered /\ pel[k] = NotPending

\* C18: an entry is acknowledged only after the view update for it went
\* through: the view record of its account holds the timestamp of every
\* acknowledged entry.
C18_AckAfterApply ==
    \A k \in Entries : Acked(k) => k \in view[stream[k].id].timestamps

C18_Witness ==
    /\ \A k \in Entries : Acked(k)
    /\ \E k \in Entries : stream[k].type = "deposit"
    /\ fails > 0


\* The view record of i holds timestamps of events of i only.
OwnTimestamps(i) ==
    \A k \in view[i].timestamps : k <= Len(stream) /\ stream[k].id = i

\* C19: the funds of every view record are the sum of the signed deltas
\* (create 0, deposit +amount, withdraw -amount) of the events whose
\* timestamps the record holds, and a record changes only by taking in one
\* new timestamp together with that event's delta.
C19_FundsMatchTimestamps ==
    /\ [](\A i \in Ids : OwnTimestamps(i) /\ view[i].funds = ViewFunds(i, MaxEvents))
    /\ [][\A i \in Ids :
            view'[i] # view[i] =>
                \E k \in Entries \ view[i].timestamps :
                    /\ k <= Len(stream) /\ stream[k].id = i
                    /\ view'[i].timestamps = view[i].timestamps \cup {k}
                    /\ view'[i].funds = view[i].funds + Delta(stream[k])
         ]_vars

C19_Witness ==
    \E i \in Ids :
        /\ Cardinality(view[i].timestamps) = 2
        /\ view[i].funds > 0
        /\ fails > 0


\* C20: a failed update or ack of one event of a batch leaves the batch's
\* other events to be applied and acknowledged by the same batch run: the
\* update() chain of a running projector ends either with the entry
\* acknowledged or through a backend error of its own.
C20_OthersStillHandled ==
    [][\A p \in Projs, o \in Origins, k \in Entries :
          (/\ tasks[p][o][k] # "none"
           /\ tasks'[p][o][k] = "none"
           /\ pstat'[p] # "dead")
          => \/ tasks[p][o][k] = "ack" /\ pel'[k] = NotPending
             \/ fails' = fails + 1
      ]_vars


\* The update() chain of entry k in batch o of projector p lost the insert
\* of its upsert to a concurrent upsert for another event of the account.
LostInsert(p, o, k) ==
    /\ tasks[p][o][k] = "upd2"
    /\ view[stream[k].id].exists
    /\ k \notin view[stream[k].id].timestamps

\* C21: an upsert that fails with a duplicate key against a concurrent upsert
\* for another event of the same account is retried once, without upsert:
\* the retry puts the event's timestamp and delta into the one view record
\* and goes on to the ack, never to another attempt; and once all events of
\* an account are acknowledged, its record holds all their timestamps and
\* the sum of their deltas.
C21_DuplicateKeyRetry ==
    /\ [][\A p \in Projs, o \in Origins, k \in Entries :
            (LostInsert(p, o, k) /\ tasks'[p][o][k] \notin {"upd2", "none"})
            => /\ tasks'[p][o][k] = "ack"
               /\ view'[stream[k].id].timestamps =
                      view[stream[k].id].timestamps \cup {k}
               /\ view'[stream[k].id].funds =
                      view[stream[k].id].funds + Delta(stream[k])
         ]_vars
    /\ [](\A i \in Ids :
            (\A k \in 1..Len(stream) : stream[k].id = i => Acked(k))
            => /\ view[i].timestamps = {k \in 1..Len(stream) : stream[k].id = i}
               /\ view[i].funds = ViewFunds(i, MaxEvents))

C21_Witness ==
    \E p \in Projs, o \in Origins, k \in Entries :
        /\ LostInsert(p, o, k)
        /\ tasks[p][o] = [j \in Entries |-> IF j = k THEN "upd2" ELSE "ack"]
        /\ stream[k].type = "create"


\* The projector instances with an update() chain at work on entry k.
Handling(k) == {po[1] : po \in InFlight(k)}

SweepEnds(p) ==
    sweep[p].pc = "claim" /\ sweep'[p].pc = "idle" /\ pstat'[p] # "dead"

\* The entries that run has transferred to p.
Transferred(p) == sweep[p].got \cup {k \in Entries : pel'[k] # pel[k]}

\* The entries that run returns, which processPending hands to eventHandler.
Returned(p) == {k \in Entries : tasks'[p]["sweep"][k] = "upd"}

\* C23: getPending transfers to the consumer exactly the pending entries
\* that were idle for maxElapsed, leaving the others with their owner, and
\* returns exactly the entries it transferred.
C23_ReturnsWhatItClaims ==
    [][\A p \in Projs :
          /\ (sweep[p].pc = "claim" /\ sweep'[p] # sweep[p] /\ pstat'[p] # "dead")
             => \A k \in Entries :
                   pel'[k] # pel[k]
                   <=> k = Head(sweep[p].todo) /\ Claimable(pel[k])
          /\ SweepEnds(p) => Returned(p) = Transferred(p)
      ]_vars


\* The version key of the id of handler h of process p is as its publish
\* read it (GET) before it sent the transaction.
KeyAsRead(p, h) == kv[hs[p][h].id] = hs[p][h].ver - 1

\* C24: a publish returns none only if the version key of its own id
\* differed from event.version or was modified between its read and its
\* transaction, and it commits only if that key was not modified; what
\* happens to another account on the same connection changes neither.
C24_OwnKeyOnly ==
    [][\A p \in Procs, h \in Handlers :
          (hs[p][h].pc = "exec" /\ hs'[p][h].pc = "done")
          => (hs'[p][h].outcome = "ok" <=> KeyAsRead(p, h))
      ]_vars


\* C25: when publish raises a backend error inside deposit or withdraw, the
\* cached aggregate does not keep the unpublished mutation: once the command
\* has failed, the cached funds of its id are the fold of the id's events.
C25_NoMutationLeftOnError ==
    [][\A p \in Procs, h \in Handlers :
          LET r == hs[p][h] IN
          (/\ r.op \in {"deposit", "withdraw"}
           /\ hs'[p][h].pc = "done" /\ hs'[p][h].outcome = "error"
           /\ r.pc # "done"
           /\ cache'[p][r.id] # 0)
          => heap'[p][cache'[p][r.id]].funds = FoldFunds(r.id)
      ]_vars


\* A create(i) call is on its way in some service process.
CreateInFlight(i) ==
    \E p \in Procs, h \in Handlers :
        hs[p][h].op = "create" /\ hs[p][h].id = i /\ hs[p][h].pc \notin {"idle", "done"}

\* C26: id registration and the create event are all-or-nothing: whenever
\* no create call for an id is in flight, a registered id has a create
\* event on the stream.
C26_RegisteredHasCreate ==
    \A i \in Ids : (i \in idset /\ ~CreateInFlight(i)) => CreateEvents(i) >= 1


\* C27: the increment of the version key and the append of the event are
\* one atomic transaction: the version key of an id always equals the number
\* of stream events that carry the id (0 when there is none).
C27_KeyCountsEvents ==
    \A i \in Ids : kv[i] = Len(EventsOf(i))

C27_Witness ==
    /\ kv["a"] = 3
    /\ Len(EventsOf("a")) = 3
    /\ \E p \in Procs, h \in Handlers : hs[p][h].pc = "exec" /\ dirty[p]

=============================================================================
